---- MODULE Spec2Model ----
(***************************************************************************)
(* A model of the task orchestration engine of wandai:                     *)
(*   backend/app/services/enhanced_agent_orchestrator.py                   *)
(*   backend/app/services/context_manager.py                               *)
(*   backend/app/services/agents/*.py                                      *)
(*   backend/app/api/v1/endpoints/enhanced_tasks.py                        *)
(*                                                                         *)
(* Text is a sequence of one-character strings, so that lower(), split()   *)
(* and the substring test `kw in text` are computed, not assumed.          *)
(* Progress is counted in units of 1/600 (600 = 1.0) and confidence in     *)
(* units of 1/1000 (1000 = 1.0), so that every value the code computes     *)
(* for the lists modelled here is an integer.                              *)
(***************************************************************************)
EXTENDS Integers, Sequences, FiniteSets, TLC

VARIABLES
    tasks,          \* self.tasks: task id -> TaskStatus record
    flow,           \* per task: the position and locals of its execute_task call
    shared_context, \* context_manager.shared_context: task id -> task context
    stats,          \* self.stats
    response,       \* the last answer of a pause / resume / cancel endpoint
    fn_in,          \* the function applied by ApplySelect / ApplyValidate, and its argument
    fn_out,         \* its result
    store           \* the ContextManager's agent outputs and history, and the clock

vars == <<tasks, flow, shared_context, stats, response, fn_in, fn_out, store>>

None == "None"

(***************************************************************************)
(* Bounds of the model.                                                    *)
(***************************************************************************)
MaxContent == 2     \* content words of a generated task description
MaxFill == 10       \* filler words appended to a generated description
MaxRepeat == 2      \* repetitions of a word in a long agent output

(***************************************************************************)
(* Text.                                                                   *)
(***************************************************************************)
LowerChar(c) ==
    CASE c = "A" -> "a"
      [] c = "R" -> "r"
      [] c = "H" -> "h"
      [] OTHER -> c

Lower(s) == [i \in DOMAIN s |-> LowerChar(s[i])]

\* kw in s
IsSubstring(kw, s) ==
    \E i \in 1..(Len(s) - Len(kw) + 1) : SubSeq(s, i, i + Len(kw) - 1) = kw

\* len(s.split())
WordCount(s) ==
    Cardinality({i \in 1..Len(s) : s[i] # " " /\ (i = 1 \/ s[i - 1] = " ")})

RECURSIVE Join(_)
Join(words) ==
    IF words = <<>> THEN <<>>
    ELSE IF Len(words) = 1 THEN words[1]
    ELSE words[1] \o <<" ">> \o Join(Tail(words))

RECURSIVE Repeat(_, _)
Repeat(w, n) == IF n = 0 THEN <<>> ELSE <<w>> \o Repeat(w, n - 1)

WResearch == <<"R","e","s","e","a","r","c","h">>
WAnalyze == <<"A","n","a","l","y","z","e">>
WDatabase == <<"d","a","t","a","b","a","s","e">>
WChart == <<"c","h","a","r","t">>
WRevenue == <<"r","e","v","e","n","u","e">>
WItems == <<"i","t","e","m","s">>
WHi == <<"H","i">>

\* The words task descriptions are drawn from.
Vocabulary == {WResearch, WAnalyze, WDatabase, WChart, WRevenue, WItems, WHi}

Filler == <<"o","f">>

SeqsUpTo(S, n) == UNION {[1..k -> S] : k \in 0..n}

\* Generated task descriptions: up to MaxContent vocabulary words followed by
\* up to MaxFill filler words, separated by single spaces.
Descriptions ==
    {Join(c \o Repeat(Filler, f)) : c \in SeqsUpTo(Vocabulary, MaxContent), f \in 0..MaxFill}

(***************************************************************************)
(* Agent selection: EnhancedAgentOrchestrator._select_agents_for_task.    *)
(***************************************************************************)
PlannerWordLimit == 10

ResearchKeywords ==
    { <<"r","e","s","e","a","r","c","h">>, <<"f","i","n","d">>,
      <<"g","a","t","h","e","r">>, <<"s","e","a","r","c","h">> }

AnalysisKeywords ==
    { <<"a","n","a","l","y","z","e">>, <<"d","a","t","a">>,
      <<"t","r","e","n","d">>, <<"p","a","t","t","e","r","n">> }

CreatorKeywords ==
    { <<"c","r","e","a","t","e">>, <<"g","e","n","e","r","a","t","e">>,
      <<"m","a","k","e">>, <<"b","u","i","l","d">>,
      <<"c","h","a","r","t">>, <<"r","e","p","o","r","t">> }

Contains(seq, x) == \E i \in DOMAIN seq : seq[i] = x

AppendIf(cond, seq, x) == IF cond THEN Append(seq, x) ELSE seq

\* lines 159-178: the keyword scan and the coordinator rule
KeywordAgents(task_description) ==
    LET task_lower == Lower(task_description)
        s0 == AppendIf(WordCount(task_description) > PlannerWordLimit, <<>>, "planner")
        s1 == AppendIf(\E w \in ResearchKeywords : IsSubstring(w, task_lower), s0, "research")
        s2 == AppendIf(\E w \in AnalysisKeywords : IsSubstring(w, task_lower), s1, "analysis")
        s3 == AppendIf(\E w \in CreatorKeywords : IsSubstring(w, task_lower), s2, "creator")
    IN  AppendIf(Len(s3) > 1, s3, "coordinator")

\* A slip: the second default agent is not appended.
EnsureTwoAgentsResearchOnly(selected_agents) ==
    IF Len(selected_agents) < 2
    THEN AppendIf(~Contains(selected_agents, "research"), selected_agents, "research")
    ELSE selected_agents

\* lines 180-185: ensure at least 2 agents are selected
EnsureTwoAgents(selected_agents) ==
    IF Len(selected_agents) < 2
    THEN LET r == AppendIf(~Contains(selected_agents, "research"), selected_agents, "research")
         IN  AppendIf(~Contains(r, "analysis"), r, "analysis")
    ELSE selected_agents

select_agents_for_task(task_description) ==
    EnsureTwoAgents(KeywordAgents(task_description))

(***************************************************************************)
(* Dictionaries and messages.  A Python dict is a function from its keys;  *)
(* a message is the sequence of the pieces an f-string joins.              *)
(***************************************************************************)
Get(d, k, default) == IF k \in DOMAIN d THEN d[k] ELSE default

ConfidenceOne == 1000   \* confidence 1.0
ProgressOne == 600      \* progress 1.0

(***************************************************************************)
(* BaseAgent.validate_task and the agents' execute.                        *)
(***************************************************************************)
AmbiguousWords ==
    { <<"i","t">>, <<"t","h","i","s">>, <<"t","h","a","t">>, <<"t","h","e","m">>,
      <<"t","h","o","s","e">>, <<"h","e","r","e">>, <<"t","h","e","r","e">> }

MinTaskWords == 3

validate_task(task) ==
    [ is_clear |-> ~(\E w \in AmbiguousWords : IsSubstring(w, Lower(task))),
      is_complete |-> ~(WordCount(task) < MinTaskWords) ]

\* AgentResult.__init__ defaults
AgentResult(success, output, metadata, tools_used, confidence, errors) ==
    [ success |-> success, output |-> output, metadata |-> metadata,
      tools_used |-> tools_used, confidence |-> confidence, errors |-> errors ]

\* _parse_plan: the keys of the structured plan are fixed; the parsed lists
\* are text of the completion provider and are not read by the orchestrator.
StructuredPlan ==
    [ steps |-> <<>>, required_agents |-> <<>>, estimated_duration |-> "unknown",
      dependencies |-> <<>>, success_criteria |-> <<>> ]

ClarificationConfidence == 300
FailureConfidence == 100
PlannerConfidence == 900

\* PlannerAgent.execute
planner_execute(task) ==
    LET validation == validate_task(task)
    IN  IF ~validation.is_clear \/ ~validation.is_complete
        THEN AgentResult(FALSE, <<"Task needs clarification before planning can begin.">>,
                         {"validation", "clarifying_questions", "task_status"},
                         <<>>, ClarificationConfidence, <<>>)
        ELSE [ AgentResult(TRUE, <<"plan">>,
                           {"structured_plan", "task_breakdown", "estimated_duration",
                            "required_agents", "dependencies", "validation"},
                           <<>>, PlannerConfidence, <<>>)
               EXCEPT !.metadata = [structured_plan |-> StructuredPlan] ]

AgentNames == {"planner", "research", "analysis", "creator", "coordinator"}

\* the engines an agent names in tools_used when it succeeds
AgentEngines(agent_name) ==
    CASE agent_name = "research" -> <<"research_engine", "analysis_engine">>
      [] agent_name = "analysis" -> <<"data_analyzer", "analysis_engine">>
      [] agent_name = "creator" -> <<"content_engine", "formatting_engine">>
      [] agent_name = "coordinator" -> <<"coordination_engine", "quality_engine">>
      [] OTHER -> <<>>

AgentLabel(agent_name) ==
    CASE agent_name = "research" -> "Research"
      [] agent_name = "analysis" -> "Analysis"
      [] agent_name = "creator" -> "Content creation"
      [] agent_name = "coordinator" -> "Coordination"
      [] OTHER -> "Planning"

(***************************************************************************)
(* What the environment decides in one agent invocation:                   *)
(*   kind        "ok"       the agent's work succeeds                      *)
(*               "failed"   an error inside the agent's execute, which     *)
(*                          its own handler reports (success = False)      *)
(*               "raised"   execute raises to execute_with_tools           *)
(*               "wrapper"  an error in _execute_agent_with_tools itself   *)
(*               "loop"     an error in the loop body of                   *)
(*                          _execute_with_intelligent_agents               *)
(*   confidence  the confidence the agent computes when it succeeds        *)
(*   output      the text it produces when it succeeds                     *)
(*   provider    whether the completion provider answers the fact check    *)
(***************************************************************************)
\* ResearchAgent / AnalysisAgent / CreatorAgent / CoordinatorAgent .execute
agent_execute(agent_name, task, env) ==
    LET validation == validate_task(task)
    IN  IF ~validation.is_clear
        THEN AgentResult(FALSE, <<AgentLabel(agent_name), " task needs clarification.">>,
                         {"validation", "clarifying_questions"}, <<>>,
                         ClarificationConfidence, <<>>)
        ELSE IF env.kind = "failed"
        THEN AgentResult(FALSE, <<AgentLabel(agent_name), " failed: ", "agent error">>,
                         {}, <<>>, FailureConfidence, <<"agent error">>)
        ELSE AgentResult(TRUE, env.output, {"validation", "confidence_level"},
                         AgentEngines(agent_name), env.confidence, <<>>)

\* A slip: the handler reports the agents' own failure confidence.
RaisedConfidenceAsReported == FailureConfidence

\* BaseAgent.execute_with_tools, line 82: the confidence its handler reports
RaisedConfidence == 0

\* BaseAgent.execute_with_tools
execute_with_tools(agent_name, agent_context, env) ==
    IF env.kind = "raised"
    THEN [ output |-> <<"Execution failed: ", "agent raised">>, success |-> FALSE,
           confidence |-> RaisedConfidence, tools_used |-> <<>>, metadata |-> {},
           errors |-> <<"agent raised">> ]
    ELSE LET result == agent_execute(agent_name, agent_context.task_description, env)
         IN  [ output |-> result.output, success |-> result.success,
               confidence |-> result.confidence, tools_used |-> result.tools_used,
               metadata |-> result.metadata, errors |-> result.errors ]

\* lines 254-261: the context the agent is handed
agent_context_of(plan, shared, context) ==
    [ task_description |-> Get(plan, "description", <<>>),
      shared_context |-> shared,
      previous_results |-> Get(shared, "agent_results", <<>>),
      knowledge_base_context |-> context ]

\* EnhancedAgentOrchestrator._execute_agent_with_tools
execute_agent_with_tools(agent_name, plan, shared, context, env) ==
    IF env.kind = "wrapper"
    THEN [ error |-> <<"wrapper error">>, agent_name |-> agent_name,
           tools_used |-> <<>>, confidence |-> 0 ]
    ELSE LET agent_context == agent_context_of(plan, shared, context)
             result == execute_with_tools(agent_name, agent_context, env)
             tools_used == IF "tools_used" \in DOMAIN result THEN result.tools_used ELSE <<>>
         IN  [ output |-> result.output, success |-> result.success,
               confidence |-> result.confidence, tools_used |-> tools_used,
               metadata |-> result.metadata, errors |-> result.errors,
               agent_name |-> agent_name ]

(***************************************************************************)
(* Context documents and the tool registry.                                *)
(* A context is None (execute_task's default) or a list of search results. *)
(* An optional value is a sequence: <<>> for None, <<v>> for v.            *)
(***************************************************************************)
Doc1 == [document_id |-> "doc1", content |-> <<"revenue", "grew">>, length |-> 120]
Doc2 == [document_id |-> "doc2", content |-> <<"costs", "fell">>, length |-> 20]

NoContext == [given |-> FALSE, docs |-> <<>>]
ContextOf(docs) == [given |-> TRUE, docs |-> docs]

FormatPrefixLen == 11    \* len("Context 1: ")
FormatSuffixLen == 3     \* len("...")
FormatSepLen == 2        \* len("\n\n")
FormatDocLimit == 3      \* context[:3]
FormatContentLimit == 300

Min(a, b) == IF a < b THEN a ELSE b

RECURSIVE SumLen(_)
SumLen(docs) ==
    IF docs = <<>> THEN 0
    ELSE FormatPrefixLen + Min(docs[1].length, FormatContentLimit) + FormatSuffixLen
         + (IF Len(docs) > 1 THEN FormatSepLen ELSE 0) + SumLen(Tail(docs))

\* _format_context: the length of the text and the words in it
format_context(context) ==
    IF ~context.given \/ context.docs = <<>>
    THEN [length |-> 0, words |-> {}]
    ELSE LET top == SubSeq(context.docs, 1, Min(Len(context.docs), FormatDocLimit))
         IN  [ length |-> SumLen(top),
               words |-> UNION {{top[i].content[j] : j \in DOMAIN top[i].content}
                                : i \in DOMAIN top} ]

\* ToolRegistry._register_default_tools
ToolRegistryTools ==
    {"python_executor", "data_analyzer", "chart_generator", "web_search",
     "file_processor", "knowledge_enricher", "fact_checker"}

ToolParameters(tool_name) ==
    IF tool_name = "fact_checker" THEN {"claim", "context", "sources"} ELSE {"context"}

FactCheckConfidence == 800

\* ToolRegistry._fact_check: its own handler turns a provider error into a result
fact_check(provider_ok) ==
    IF provider_ok
    THEN [claim |-> "claim", fact_check_result |-> "text", confidence |-> FactCheckConfidence]
    ELSE [error |-> "provider error"]

\* ToolRegistry.execute_tool (the tool is registered: the caller checked)
execute_tool(tool_name, kwargs, provider_ok) ==
    IF ToolParameters(tool_name) \ kwargs # {}
    THEN [success |-> FALSE, tool |-> tool_name, error |-> "Missing required parameters"]
    ELSE [success |-> TRUE, tool |-> tool_name, result |-> fact_check(provider_ok)]

(***************************************************************************)
(* Validation: EnhancedAgentOrchestrator._validate_agent_output.          *)
(***************************************************************************)
Verdict(valid, reason, tier) == [valid |-> valid, reason |-> reason, confidence |-> tier]

FactCheckDefault == 500
FactCheckThreshold == 600
OverlapMinContext == 100

\* lines 321-334: the fallback validation
fallback_validation(output, context) ==
    LET context_text == format_context(context)
        output_words == {output[i] : i \in DOMAIN output}
        overlap == Cardinality(output_words \cap context_text.words)
    IN  IF context_text.length > OverlapMinContext
        THEN IF overlap * 10 > Cardinality(output_words) * 3
             THEN Verdict(TRUE, <<"Good context overlap">>, "medium")
             ELSE Verdict(FALSE, <<"Low context overlap">>, "low")
        ELSE Verdict(TRUE, <<"Basic validation passed">>, "low")

\* A slip: the empty-output rule comes after the fact check.
validate_without_tools_fact_first(agent_result, context, provider_ok) ==
    LET output == Get(agent_result, "output", <<>>)
    IN  IF "fact_checker" \in ToolRegistryTools
        THEN IF ~context.given
             THEN Verdict(TRUE, <<"Validation failed, assuming valid">>, "low")
             ELSE LET fact_check_result ==
                          execute_tool("fact_checker", {"claim", "context", "sources"},
                                       provider_ok)
                      confidence ==
                          Get(fact_check_result.result, "confidence", FactCheckDefault)
                  IN  Verdict(confidence > FactCheckThreshold,
                              <<"Fact-check confidence: ", ToString(confidence)>>,
                              IF confidence > FactCheckThreshold THEN "high" ELSE "medium")
        ELSE IF output = <<>>
        THEN Verdict(FALSE, <<"No output generated">>, "low")
        ELSE fallback_validation(output, context)

\* lines 299-338: what follows the tools_used test
validate_without_tools(agent_result, context, provider_ok) ==
    LET output == Get(agent_result, "output", <<>>)
    IN  IF output = <<>>
        THEN Verdict(FALSE, <<"No output generated">>, "low")
        ELSE IF "fact_checker" \in ToolRegistryTools
        THEN IF ~context.given
             \* [result.document_id for result in context] raises on None
             THEN Verdict(TRUE, <<"Validation failed, assuming valid">>, "low")
             ELSE LET fact_check_result ==
                          execute_tool("fact_checker", {"claim", "context", "sources"},
                                       provider_ok)
                  IN  IF fact_check_result.success
                      THEN LET confidence ==
                                   Get(fact_check_result.result, "confidence", FactCheckDefault)
                           IN  Verdict(confidence > FactCheckThreshold,
                                       <<"Fact-check confidence: ", ToString(confidence)>>,
                                       IF confidence > FactCheckThreshold
                                       THEN "high" ELSE "medium")
                      ELSE fallback_validation(output, context)
        ELSE fallback_validation(output, context)

\* A slip: the empty-output rule is tried before the tools rule.
validate_agent_output_output_first(agent_result, context, provider_ok) ==
    IF Get(agent_result, "output", <<>>) = <<>>
    THEN Verdict(FALSE, <<"No output generated">>, "low")
    ELSE IF Get(agent_result, "tools_used", <<>>) # <<>>
    THEN Verdict(TRUE, <<"Tools were used">>, "high")
    ELSE validate_without_tools(agent_result, context, provider_ok)

validate_agent_output(agent_result, context, provider_ok) ==
    IF Get(agent_result, "tools_used", <<>>) # <<>>
    THEN Verdict(TRUE, <<"Tools were used">>, "high")
    ELSE validate_without_tools(agent_result, context, provider_ok)

(***************************************************************************)
(* Aggregation: EnhancedAgentOrchestrator._aggregate_results_enhanced.    *)
(* A confidence mean is kept as the fraction sum / count.                  *)
(***************************************************************************)
\* the methods CoordinatorAgent has (its own and BaseAgent's)
CoordinatorAgentMethods ==
    {"execute", "_analyze_requirements", "_parse_requirements",
     "_generate_fallback_requirements", "_create_execution_plan",
     "_parse_execution_plan", "_generate_fallback_execution_plan",
     "_coordinate_execution", "_execute_phase", "_generate_coordination_summary",
     "_perform_quality_assurance",
     "execute_with_tools", "can_handle", "get_capability_score", "add_to_history",
     "get_performance_metrics", "get_context_summary", "use_tool", "validate_task",
     "generate_clarifying_questions"}

AggregateDefaultConfidence == 500

\* lines 364-381: confidence_scores[agent_name] = confidence, record by record
RECURSIVE confidence_scores(_)
confidence_scores(results) ==
    IF results = <<>> THEN <<>>
    ELSE LET before == confidence_scores(SubSeq(results, 1, Len(results) - 1))
             result == results[Len(results)]
             agent_name == Get(result, "agent_name", "unknown")
         IN  [a \in DOMAIN before \cup {agent_name} |->
                 IF a = agent_name
                 THEN Get(result, "confidence", AggregateDefaultConfidence)
                 ELSE before[a]]

RECURSIVE SumOver(_, _)
SumOver(f, keys) ==
    IF keys = {} THEN 0
    ELSE LET k == CHOOSE x \in keys : TRUE IN f[k] + SumOver(f, keys \ {k})

\* line 345: filter out failed executions
successful_results(execution_results) ==
    SelectSeq(execution_results, LAMBDA r : "error" \notin DOMAIN r)

aggregate_results_enhanced(task_description, execution_results, context) ==
    LET successful == successful_results(execution_results)
        scores == confidence_scores(successful)
    IN  IF successful = <<>>
        THEN [ status |-> "failed", reason |-> "No successful agent executions",
               summary |-> "Task execution failed across all agents" ]
        ELSE IF "synthesize_results" \notin CoordinatorAgentMethods
        \* coordinator.synthesize_results raises AttributeError: lines 400-406
        THEN [ status |-> "error", error |-> "no attribute synthesize_results",
               summary |-> "Failed to aggregate agent results" ]
        ELSE [ task_description |-> task_description,
               final_result |-> "synthesis",
               confidence_scores |-> scores,
               overall_confidence |->
                   [sum |-> SumOver(scores, DOMAIN scores),
                    count |-> Cardinality(DOMAIN scores)] ]

(***************************************************************************)
(* TaskResult (pydantic): a field without a default is required.           *)
(***************************************************************************)
TaskResultRequired ==
    {"task_id", "status", "final_result", "agent_summaries", "knowledge_gaps",
     "execution_time", "created_at", "completed_at", "overall_confidence"}

\* the keyword arguments of TaskResult(...) in execute_task, lines 102-111
TaskResultPassed ==
    {"task_id", "status", "final_result", "agent_summaries", "knowledge_gaps",
     "execution_time", "created_at", "completed_at"}

\* <<>> when the object is built, else the ValidationError's message
task_result_error ==
    IF TaskResultRequired \subseteq TaskResultPassed
    THEN <<>>
    ELSE <<"validation error for TaskResult: field required">>

(***************************************************************************)
(* ContextManager.create_context / update_context.                         *)
(***************************************************************************)
NoSharedContext == [created |-> FALSE, context_data |-> 0, agent_results |-> <<>>,
                    shared_data |-> {}]

create_context(shared, task_id, context) ==
    [shared EXCEPT ![task_id] =
        [ created |-> TRUE, context_data |-> format_context(context).length,
          agent_results |-> <<>>, shared_data |-> {} ]]

UpdateDefaultConfidence == 0

\* A slip: the agent's result is not stored.
update_context_dropped(shared, task_id, agent_name, agent_result) == shared

\* update_context
update_context(shared, task_id, agent_name, agent_result) ==
    LET base == IF shared[task_id].created THEN shared[task_id]
                ELSE [ created |-> TRUE, context_data |-> 0, agent_results |-> <<>>,
                       shared_data |-> {} ]
        entry == [ output |-> Get(agent_result, "output", <<>>),
                   confidence |-> Get(agent_result, "confidence", UpdateDefaultConfidence),
                   tools_used |-> Get(agent_result, "tools_used", <<>>) ]
    IN  [shared EXCEPT ![task_id] =
            [ base EXCEPT
                !.agent_results =
                    [a \in DOMAIN base.agent_results \cup {agent_name} |->
                        IF a = agent_name THEN entry ELSE base.agent_results[a]],
                !.shared_data = @ \cup Get(agent_result, "metadata", {}) ]]

(***************************************************************************)
(* ContextManager: the agent outputs, their history and the relevance      *)
(* scoring.  agent_outputs is the dict in insertion order, one entry per   *)
(* agent.  Time is counted in ticks of TickSeconds; a timestamp is the     *)
(* tick at which the entry was stored.  An entry that went through         *)
(* export_context / import_context has its timestamp as text (json.dumps   *)
(* with default=str), kind "text".  Relevance is counted in units of       *)
(* 1/8400, which makes every value below an integer for up to 7 words.     *)
(***************************************************************************)
MaxTicks == 2
MaxAdds == 2
MaxImports == 1

TickSeconds == 2400
HistoryCap == 50
RelevanceOne == 8400
SameAgentBonus == 2520      \* 0.3
RelatedAgentBonus == 1680   \* 0.2
TaskWeight == 4200          \* 0.5
RecencyWeight == 1680       \* 0.2
RecencyWindow == 3600       \* seconds

EmptyStore ==
    [agent_outputs |-> <<>>, context_history |-> <<>>, now |-> 0, adds |-> 0,
     imports |-> 0]

\* set(text.lower().split())
Words(text) ==
    LET lowered == Lower(text)
        starts == {i \in 1..Len(lowered) :
                      lowered[i] # " " /\ (i = 1 \/ lowered[i - 1] = " ")}
        EndOf(i) == CHOOSE j \in i..Len(lowered) :
                        /\ \A k \in i..j : lowered[k] # " "
                        /\ (j = Len(lowered) \/ lowered[j + 1] = " ")
    IN  {SubSeq(lowered, i, EndOf(i)) : i \in starts}

\* _are_agents_related
AgentGroups ==
    {{"planner", "coordinator"}, {"research", "analysis", "creator"},
     {"coordinator", "planner"}}

are_agents_related(agent1, agent2) ==
    \E group \in AgentGroups : agent1 \in group /\ agent2 \in group

\* _calculate_task_relevance: the Jaccard similarity, times TaskWeight
calculate_task_relevance(context_text, task) ==
    LET task_words == Words(task)
        context_words == Words(context_text)
        intersection == Cardinality(task_words \cap context_words)
        union == Cardinality(task_words \cup context_words)
    IN  IF task_words = {} THEN 0
        ELSE IF union = 0 THEN 0
        ELSE (intersection * TaskWeight) \div union

Max(a, b) == IF a > b THEN a ELSE b

\* line 162: max(0, 1 - seconds / 3600), times RecencyWeight
recency_score(seconds) ==
    (Max(0, RecencyWindow - seconds) * RecencyWeight) \div RecencyWindow

\* _calculate_context_relevance; the subtraction datetime.now() - timestamp
\* raises TypeError when the timestamp is text
calculate_context_relevance(context_agent, output_data, target_agent, task, now) ==
    LET agent_part == IF context_agent = target_agent THEN SameAgentBonus
                      ELSE IF are_agents_related(context_agent, target_agent)
                      THEN RelatedAgentBonus ELSE 0
        task_part == calculate_task_relevance(output_data.output, task)
    IN  IF output_data.kind # "datetime"
        THEN [raised |-> TRUE, score |-> 0]
        ELSE [raised |-> FALSE,
              score |-> Min(agent_part + task_part
                            + recency_score((now - output_data.timestamp) * TickSeconds),
                            RelevanceOne)]

RelevanceThreshold == 2520  \* 0.3
TopContexts == 5
DefaultMaxContextSize == 2000
TruncationReserve == 100
TruncationNoticeLen == 77   \* len("...\n\n[Context truncated ... agent outputs.]")
NoContextLen == 30          \* len("No relevant context available.")
RetrievalFailedLen == 58    \* len("Context retrieval failed. Proceeding ...")
EntryFrameLen == 22         \* len("[") + len(" - Relevance: ") + len("0.00") + len("]\n") + len("\n")
EntrySepLen == 5            \* len("\n---\n")

\* the first index of a largest relevance score (list.sort is stable)
FirstBest(contexts) ==
    CHOOSE i \in DOMAIN contexts :
        /\ \A j \in DOMAIN contexts : contexts[j].relevance_score <= contexts[i].relevance_score
        /\ \A j \in 1..(i - 1) : contexts[j].relevance_score < contexts[i].relevance_score

Without(seq, i) == SubSeq(seq, 1, i - 1) \o SubSeq(seq, i + 1, Len(seq))

\* sort(key=relevance_score, reverse=True)
RECURSIVE SortByRelevance(_)
SortByRelevance(contexts) ==
    IF contexts = <<>> THEN <<>>
    ELSE LET i == FirstBest(contexts)
         IN  <<contexts[i]>> \o SortByRelevance(Without(contexts, i))

\* _identify_relevant_contexts; raised when a score could not be computed
identify_relevant_contexts(S, agent_name, task) ==
    LET scored == [k \in DOMAIN S.agent_outputs |->
                      calculate_context_relevance(S.agent_outputs[k].agent,
                          S.agent_outputs[k], agent_name, Lower(task), S.now)]
        relevant == SelectSeq([k \in DOMAIN S.agent_outputs |->
                                  [agent |-> S.agent_outputs[k].agent,
                                   output |-> S.agent_outputs[k].output,
                                   relevance_score |-> scored[k].score]],
                              LAMBDA c : c.relevance_score > RelevanceThreshold)
    IN  IF \E k \in DOMAIN scored : scored[k].raised
        THEN [raised |-> TRUE, contexts |-> <<>>]
        ELSE [raised |-> FALSE, contexts |-> SortByRelevance(relevant)]

RECURSIVE EntriesLen(_)
EntriesLen(contexts) ==
    IF contexts = <<>> THEN 0
    ELSE EntryFrameLen + Len(contexts[1].agent) + Len(contexts[1].output)
         + (IF Len(contexts) > 1 THEN EntrySepLen ELSE 0) + EntriesLen(Tail(contexts))

\* _filter_context_by_relevance: the entries shown and the length of the text
filter_context_by_relevance(relevant_contexts) ==
    IF relevant_contexts = <<>>
    THEN [shown |-> <<>>, length |-> NoContextLen]
    ELSE LET top == SubSeq(relevant_contexts, 1, Min(Len(relevant_contexts), TopContexts))
         IN  [shown |-> top, length |-> EntriesLen(top)]

\* len(text[:n])
SliceLen(length, n) == IF n >= 0 THEN Min(length, n) ELSE Max(0, length + n)

\* _summarize_context: how many leading characters of the text it keeps,
\* whether the truncation notice follows them, and the length of the result
summarize_context(length, max_size) ==
    IF length <= max_size
    THEN [kept |-> length, marked |-> FALSE, length |-> length]
    ELSE [kept |-> SliceLen(length, max_size - TruncationReserve), marked |-> TRUE,
          length |-> SliceLen(length, max_size - TruncationReserve)
                         + TruncationNoticeLen]

\* get_context_for_agent
get_context_for_agent(S, agent_name, task, max_context_size) ==
    LET relevant == identify_relevant_contexts(S, agent_name, task)
        filtered == filter_context_by_relevance(relevant.contexts)
        summary == IF filtered.length > max_context_size
                   THEN summarize_context(filtered.length, max_context_size)
                   ELSE [kept |-> filtered.length, marked |-> FALSE,
                         length |-> filtered.length]
    IN  IF relevant.raised
        THEN [failed |-> TRUE, shown |-> <<>>, concatenation |-> 0, kept |-> 0,
              marked |-> FALSE, length |-> RetrievalFailedLen]
        ELSE [failed |-> FALSE, shown |-> filtered.shown,
              concatenation |-> filtered.length, kept |-> summary.kept,
              marked |-> summary.marked, length |-> summary.length]

\* dict assignment: an existing key keeps its place
PutOutput(outputs, entry) ==
    IF \E k \in DOMAIN outputs : outputs[k].agent = entry.agent
    THEN [k \in DOMAIN outputs |->
             IF outputs[k].agent = entry.agent THEN entry ELSE outputs[k]]
    ELSE Append(outputs, entry)

\* add_agent_output
add_agent_output(S, agent_name, output) ==
    LET history == Append(S.context_history,
                          [agent |-> agent_name, timestamp |-> S.now,
                           kind |-> "datetime", output_length |-> Len(output)])
    IN  [S EXCEPT
           !.agent_outputs = PutOutput(@, [agent |-> agent_name, output |-> output,
                                           timestamp |-> S.now, kind |-> "datetime"]),
           !.context_history = IF Len(history) > HistoryCap THEN Tail(history)
                               ELSE history]

\* what json.dumps(..., default=str) and json.loads make of a timestamp
AsText(entry) == [entry EXCEPT !.kind = "text"]

\* import_context(export_context("json"), "json")
import_exported_context(S) ==
    [S EXCEPT
       !.agent_outputs = [k \in DOMAIN @ |-> AsText(@[k])],
       !.context_history = @ \o [k \in DOMAIN @ |-> AsText(@[k])]]

SecondsPerHour == 3600

\* line 307: cutoff_time = now - max_age_hours * 3600; an entry is swept when
\* its timestamp lies before the cutoff
BeforeCutoff(entry, now, max_age_hours) ==
    entry.timestamp * TickSeconds < now * TickSeconds - max_age_hours * SecondsPerHour

\* clear_old_context: timestamp.timestamp() raises on a text timestamp, and
\* the handler only logs; the outputs are deleted after their loop has ended,
\* the history is replaced after its comprehension has ended
clear_old_context(S, max_age_hours) ==
    LET outputs_raise == \E k \in DOMAIN S.agent_outputs :
                             S.agent_outputs[k].kind # "datetime"
        history_raise == \E k \in DOMAIN S.context_history :
                             S.context_history[k].kind # "datetime"
        outputs_kept == SelectSeq(S.agent_outputs,
                                  LAMBDA e : ~BeforeCutoff(e, S.now, max_age_hours))
        history_kept == SelectSeq(S.context_history,
                                  LAMBDA e : ~BeforeCutoff(e, S.now, max_age_hours))
    IN  IF outputs_raise THEN S
        ELSE IF history_raise THEN [S EXCEPT !.agent_outputs = outputs_kept]
        ELSE [S EXCEPT !.agent_outputs = outputs_kept,
                       !.context_history = history_kept]

(***************************************************************************)
(* The orchestrator: EnhancedAgentOrchestrator.execute_task.               *)
(***************************************************************************)
TaskIds == {1, 2}

\* The task descriptions and contexts execute_task is called with.
TaskDescriptions == {Join(<<WHi>>), Join(<<WAnalyze, WRevenue, Filler>>)}
TaskContexts == {NoContext, ContextOf(<<Doc1>>)}

\* What the environment may decide in one agent invocation.
AgentEnvs ==
    { [kind |-> "ok", confidence |-> 600, output |-> <<"findings">>, provider |-> TRUE],
      [kind |-> "ok", confidence |-> 900, output |-> <<>>, provider |-> TRUE],
      [kind |-> "wrapper", confidence |-> 0, output |-> <<>>, provider |-> TRUE],
      [kind |-> "loop", confidence |-> 0, output |-> <<>>, provider |-> TRUE] }
    \cup { [kind |-> k, confidence |-> 0, output |-> <<>>, provider |-> p]
           : k \in {"failed", "raised"}, p \in BOOLEAN }

\* TaskStatus(...) as execute_task builds it, lines 64-72
NoTask == [status |-> "absent", progress |-> 0, agents |-> <<>>, result |-> <<>>,
           errors |-> <<>>]

NewTask == [status |-> "planning", progress |-> 0, agents |-> <<>>, result |-> <<>>,
            errors |-> <<>>]

IdleFlow ==
    [ pc |-> "idle", description |-> <<>>, context |-> NoContext, plan_result |-> <<>>,
      selected_agents |-> <<>>, i |-> 0, execution_results |-> <<>>,
      final_result |-> <<>>, origin |-> <<>>, exc |-> <<>>, outcome |-> "none",
      mode |-> "task", events |-> <<>>, closed |-> FALSE, handed |-> <<>>,
      log |-> <<>> ]

\* A slip: the status is written to every task of the registry.
update_task_status_of_all(T, task_id, status, progress, result, errors) ==
    [u \in DOMAIN T |->
        IF T[u].status # "absent"
        THEN [T[u] EXCEPT !.status = status, !.progress = progress]
        ELSE T[u]]

\* _update_task_status: result and errors are stored only when given (truthy)
update_task_status(T, task_id, status, progress, result, errors) ==
    IF T[task_id].status # "absent"
    THEN [T EXCEPT ![task_id] =
             [ @ EXCEPT !.status = status,
                        !.progress = progress,
                        !.result = IF result # <<>> THEN result ELSE @,
                        !.errors = IF errors # <<>> THEN errors ELSE @ ]]
    ELSE T

\* A slip: a failure is counted in the total only.
update_statistics_failure_uncounted(S, success) ==
    [ total_tasks |-> S.total_tasks + 1,
      successful_tasks |-> S.successful_tasks + (IF success THEN 1 ELSE 0),
      failed_tasks |-> S.failed_tasks ]

\* _update_statistics
update_statistics(S, success) ==
    [ total_tasks |-> S.total_tasks + 1,
      successful_tasks |-> S.successful_tasks + (IF success THEN 1 ELSE 0),
      failed_tasks |-> S.failed_tasks + (IF success THEN 0 ELSE 1) ]

\* _plan_task_with_agents
plan_task_with_agents(task_description, context) ==
    LET plan_result == planner_execute(task_description)
    IN  IF ~plan_result.success
        THEN [success |-> FALSE, error |-> plan_result.output]
        ELSE [ success |-> TRUE,
               plan |-> Get(plan_result.metadata, "structured_plan", <<>>),
               selected_agents |-> select_agents_for_task(task_description),
               plan_text |-> plan_result.output ]

PlanningProgress == 60      \* 0.1
ExecutingProgress == 180    \* 0.3
ExecutionSpan == 240        \* 0.4
AggregationProgress == 480  \* 0.8
FailedProgress == 0         \* 0.0
RecordDefaultConfidence == 700

DefaultAgents == <<"research", "analysis">>

\* A slip: phase 3 already reports the task as completed.
PhaseThreeStatusCompleted == "completed"

\* line 89: the status phase 3 writes
PhaseThreeStatus == "executing"

\* A slip: the error list is not passed on.
failure_errors_dropped(exc) == <<>>

\* line 123: errors=[str(e)]
failure_errors(exc) == <<exc>>

\* AgentOrchestrator._execute_plan (the older orchestrator), line 171:
\* current_progress = 0.3 + (len(results) / len(steps)) * 0.5
LegacyExecutionSpan == 300  \* 0.5
legacy_execution_progress(done, steps) ==
    ExecutingProgress + (done * LegacyExecutionSpan) \div steps

\* A slip: the agents still to run are counted, not the agents done.
execution_progress_remaining(i, n) == ExecutingProgress + ((n - i) * ExecutionSpan) \div n

\* line 205: progress = 0.3 + (i * 0.4 / len(selected_agents))
execution_progress(i, n) == ExecutingProgress + (i * ExecutionSpan) \div n

\* A slip: the penalty takes a half off instead of halving.
penalised_by_subtraction(confidence) == confidence - ConfidenceOne \div 2

\* line 238: execution_results[-1]["confidence"] *= 0.5
penalised(confidence) == confidence \div 2

\* A slip: the penalty is applied once when the record is built and once more
\* after validation.
execution_record_penalised_twice(agent_name, agent_result, validation_result) ==
    [ agent |-> agent_name,
      result |-> agent_result,
      tools_used |-> Get(agent_result, "tools_used", <<>>),
      confidence |->
          IF validation_result.valid
          THEN Get(agent_result, "confidence", RecordDefaultConfidence)
          ELSE penalised(penalised(Get(agent_result, "confidence",
                                       RecordDefaultConfidence))),
      validation |-> validation_result ]

\* lines 216-241: the record one loop iteration appends
execution_record(agent_name, agent_result, validation_result) ==
    [ agent |-> agent_name,
      result |-> agent_result,
      tools_used |-> Get(agent_result, "tools_used", <<>>),
      confidence |->
          IF validation_result.valid
          THEN Get(agent_result, "confidence", RecordDefaultConfidence)
          ELSE penalised(Get(agent_result, "confidence", RecordDefaultConfidence)),
      validation |-> validation_result ]

Init ==
    /\ tasks = [t \in TaskIds |-> NoTask]
    /\ flow = [t \in TaskIds |-> IdleFlow]
    /\ shared_context = [t \in TaskIds |-> NoSharedContext]
    /\ stats = [total_tasks |-> 0, successful_tasks |-> 0, failed_tasks |-> 0]
    /\ response = <<>>
    /\ store = EmptyStore
    /\ fn_in = [fn |-> "none", arg |-> <<>>]
    /\ fn_out = <<>>

\* execute_task, lines 60-72: a fresh id and the TaskStatus record
ExecuteTask(t, task_description, context) ==
    /\ tasks[t].status = "absent"
    /\ flow[t].pc = "idle"
    /\ \A u \in TaskIds : u < t => flow[u].pc # "idle"
    /\ tasks' = [tasks EXCEPT ![t] = NewTask]
    /\ flow' = [flow EXCEPT ![t] =
                   [ IdleFlow EXCEPT !.pc = "plan",
                                     !.description = task_description,
                                     !.context = context ]]
    /\ UNCHANGED <<shared_context, stats, response, fn_in, fn_out, store>>

\* execute_task, lines 76-80: phase 1
PlanPhase(t) ==
    /\ flow[t].pc = "plan"
    /\ flow[t].mode = "task"
    /\ LET plan_result == plan_task_with_agents(flow[t].description, flow[t].context)
       IN  /\ tasks' = update_task_status(tasks, t, "planning", PlanningProgress, <<>>, <<>>)
           /\ flow' = [flow EXCEPT ![t] =
                          IF plan_result.success
                          THEN [@ EXCEPT !.pc = "execute", !.plan_result = <<plan_result>>]
                          ELSE [@ EXCEPT !.pc = "finish",
                                         !.origin = plan_result.error,
                                         !.exc = <<"Task planning failed: ">>
                                                 \o plan_result.error]]
    /\ UNCHANGED <<shared_context, stats, response, fn_in, fn_out, store>>

\* line 83 and lines 192-197: phase 2 begins
BeginExecution(t) ==
    /\ flow[t].pc = "execute"
    /\ flow[t].mode = "task"
    /\ LET plan == flow[t].plan_result[1].plan
           selected == Get(plan, "selected_agents", DefaultAgents)
       IN  /\ tasks' = update_task_status(tasks, t, "executing", ExecutingProgress,
                                          <<>>, <<>>)
           /\ shared_context' = create_context(shared_context, t, flow[t].context)
           /\ flow' = [flow EXCEPT ![t] =
                          [@ EXCEPT !.pc = IF selected = <<>> THEN "aggregate" ELSE "agents",
                                    !.selected_agents = selected,
                                    !.i = 0]]
    /\ UNCHANGED <<stats, response, fn_in, fn_out, store>>

\* lines 212-241: the calls one loop iteration makes, in the order it makes
\* them
LoopBodyCalls ==
    <<"_execute_agent_with_tools", "execution_results.append", "update_context",
      "_validate_agent_output", "attach_validation">>

CallsOf(agent_name) ==
    [k \in DOMAIN LoopBodyCalls |-> [call |-> LoopBodyCalls[k], agent |-> agent_name]]

\* lines 199-247: one iteration of the loop over the selected agents
AgentStep(t, env) ==
    /\ flow[t].pc = "agents"
    /\ LET f == flow[t]
           n == Len(f.selected_agents)
           agent_name == f.selected_agents[f.i + 1]
           next_pc == IF f.i + 1 = n THEN "aggregate" ELSE "agents"
           agent_result ==
               execute_agent_with_tools(agent_name, f.plan_result[1].plan,
                                        shared_context[t], f.context, env)
           validation_result == validate_agent_output(agent_result, f.context, env.provider)
       IN  IF env.kind = "loop"
           THEN /\ flow' = [flow EXCEPT ![t] =
                               [@ EXCEPT !.pc = "finish",
                                         !.origin = <<"loop error">>,
                                         !.exc = <<"Agent execution failed: ",
                                                   "loop error">>]]
                /\ UNCHANGED <<tasks, shared_context>>
           ELSE IF agent_name \notin AgentNames
           THEN /\ flow' = [flow EXCEPT ![t] = [@ EXCEPT !.pc = next_pc, !.i = @ + 1]]
                /\ UNCHANGED <<tasks, shared_context>>
           ELSE /\ tasks' = update_task_status(tasks, t, "executing",
                                               execution_progress(f.i, n), <<>>, <<>>)
                /\ shared_context' = update_context(shared_context, t, agent_name,
                                                    agent_result)
                /\ flow' = [flow EXCEPT ![t] =
                               [@ EXCEPT !.pc = next_pc,
                                         !.i = @ + 1,
                                         !.log = @ \o CallsOf(agent_name),
                                         !.handed = Append(@, DOMAIN agent_context_of(
                                                        f.plan_result[1].plan,
                                                        shared_context[t],
                                                        f.context).previous_results),
                                         !.execution_results =
                                             Append(@, execution_record(agent_name,
                                                        agent_result, validation_result))]]
    /\ UNCHANGED <<stats, response, fn_in, fn_out, store>>

\* lines 89-111: phase 3, phase 4 and the TaskResult
AggregatePhase(t) ==
    /\ flow[t].pc = "aggregate"
    /\ flow[t].mode = "task"
    /\ tasks' = update_task_status(tasks, t, PhaseThreeStatus, AggregationProgress,
                                   <<>>, <<>>)
    /\ flow' = [flow EXCEPT ![t] =
                   [@ EXCEPT !.pc = "finish",
                             !.final_result =
                                 <<aggregate_results_enhanced(flow[t].description,
                                       flow[t].execution_results, flow[t].context)>>,
                             !.origin = task_result_error,
                             !.exc = task_result_error]]
    /\ UNCHANGED <<shared_context, stats, response, fn_in, fn_out, store>>

\* lines 113-119 (the TaskResult was built) or 121-128 (an exception was raised)
Finish(t) ==
    /\ flow[t].pc = "finish"
    /\ flow[t].mode = "task"
    /\ IF flow[t].exc = <<>>
       THEN /\ tasks' = update_task_status(tasks, t, "completed", ProgressOne,
                                           flow[t].final_result, <<>>)
            /\ stats' = update_statistics(stats, TRUE)
            /\ flow' = [flow EXCEPT ![t] = [@ EXCEPT !.pc = "done", !.outcome = "returned"]]
       ELSE /\ tasks' = update_task_status(tasks, t, "failed", FailedProgress,
                                           <<>>, failure_errors(flow[t].exc))
            /\ stats' = update_statistics(stats, FALSE)
            /\ flow' = [flow EXCEPT ![t] = [@ EXCEPT !.pc = "done", !.outcome = "raised"]]
    /\ UNCHANGED <<shared_context, response, fn_in, fn_out, store>>

Next ==
    \/ \E t \in TaskIds, d \in TaskDescriptions, c \in TaskContexts : ExecuteTask(t, d, c)
    \/ \E t \in TaskIds : PlanPhase(t)
    \/ \E t \in TaskIds : BeginExecution(t)
    \/ \E t \in TaskIds, env \in AgentEnvs : AgentStep(t, env)
    \/ \E t \in TaskIds : AggregatePhase(t)
    \/ \E t \in TaskIds : Finish(t)

Spec == Init /\ [][Next]_vars

(***************************************************************************)
(* The pause / resume / cancel endpoints of enhanced_tasks.py.             *)
(***************************************************************************)
\* the methods EnhancedAgentOrchestrator has
OrchestratorMethods ==
    {"__init__", "_initialize_agents", "execute_task", "_plan_task_with_agents",
     "_select_agents_for_task", "_execute_with_intelligent_agents",
     "_execute_agent_with_tools", "_validate_agent_output",
     "_aggregate_results_enhanced", "_fallback_synthesis",
     "_analyze_knowledge_gaps_enhanced", "_format_context", "_update_task_status",
     "_update_statistics", "get_task_status", "get_statistics",
     "execute_task_with_progress", "ask_clarifying_questions"}

ControlOps == {"pause_task", "resume_task", "cancel_task"}

HttpBadRequest == 400
HttpServerError == 500
HttpOk == 200

\* pause_task / resume_task / cancel_task of the router: the call
\* agent_orchestrator.<op>(task_id) and the answer made of its outcome.  A
\* method the orchestrator does not have raises AttributeError, which the
\* endpoint's `except Exception` answers with status 500.
ControlEndpoint(op, t) ==
    /\ \E success \in BOOLEAN :
          response' =
              << [ op |-> op, task_id |-> t, status_before |-> tasks[t].status,
                   returned |-> IF op \notin OrchestratorMethods THEN "raised"
                                ELSE IF success THEN "true" ELSE "false",
                   http |-> IF op \notin OrchestratorMethods THEN HttpServerError
                            ELSE IF success THEN HttpOk ELSE HttpBadRequest ] >>
    /\ UNCHANGED <<tasks, flow, shared_context, stats, fn_in, fn_out, store>>

\* One task and the control endpoints.
ApiNext ==
    \/ \E d \in TaskDescriptions, c \in TaskContexts : ExecuteTask(1, d, c)
    \/ PlanPhase(1)
    \/ BeginExecution(1)
    \/ \E env \in AgentEnvs : AgentStep(1, env)
    \/ AggregatePhase(1)
    \/ Finish(1)
    \/ \E op \in ControlOps : ControlEndpoint(op, 1)

SpecApi == Init /\ [][ApiNext]_vars

(***************************************************************************)
(* Single functions: Init draws the argument, one action applies the       *)
(* function.                                                               *)
(***************************************************************************)
InitSelect ==
    /\ tasks = [t \in TaskIds |-> NoTask]
    /\ flow = [t \in TaskIds |-> IdleFlow]
    /\ shared_context = [t \in TaskIds |-> NoSharedContext]
    /\ stats = [total_tasks |-> 0, successful_tasks |-> 0, failed_tasks |-> 0]
    /\ response = <<>>
    /\ store = EmptyStore
    /\ fn_in \in {[fn |-> "select", arg |-> d] : d \in Descriptions}
    /\ fn_out = <<>>

ApplySelect ==
    /\ fn_in.fn = "select"
    /\ fn_out = <<>>
    /\ fn_out' = <<select_agents_for_task(fn_in.arg)>>
    /\ UNCHANGED <<tasks, flow, shared_context, stats, response, fn_in, store>>

SpecSelect == InitSelect /\ [][ApplySelect]_vars

\* Results without tools whose output is empty, or that have no output key.
BareResults ==
    { [output |-> <<>>, success |-> TRUE, confidence |-> 600, tools_used |-> <<>>],
      [success |-> TRUE, confidence |-> 600, tools_used |-> <<>>] }

\* The agent results _execute_agent_with_tools can hand to the validation.
ValidateResults ==
    { execute_agent_with_tools(a, StructuredPlan, NoSharedContext, NoContext, env)
      : a \in AgentNames \ {"planner"}, env \in {e \in AgentEnvs : e.kind # "loop"} }
    \cup BareResults

ValidateContexts ==
    {NoContext, ContextOf(<<>>), ContextOf(<<Doc1>>), ContextOf(<<Doc2, Doc1>>)}

InitValidate ==
    /\ tasks = [t \in TaskIds |-> NoTask]
    /\ flow = [t \in TaskIds |-> IdleFlow]
    /\ shared_context = [t \in TaskIds |-> NoSharedContext]
    /\ stats = [total_tasks |-> 0, successful_tasks |-> 0, failed_tasks |-> 0]
    /\ response = <<>>
    /\ store = EmptyStore
    /\ fn_in \in { [fn |-> "validate",
                    arg |-> [agent_result |-> r, context |-> c, provider |-> p]]
                   : r \in ValidateResults, c \in ValidateContexts, p \in BOOLEAN }
    /\ fn_out = <<>>

ApplyValidate ==
    /\ fn_in.fn = "validate"
    /\ fn_out = <<>>
    /\ fn_out' = <<validate_agent_output(fn_in.arg.agent_result, fn_in.arg.context,
                                         fn_in.arg.provider)>>
    /\ UNCHANGED <<tasks, flow, shared_context, stats, response, fn_in, store>>

SpecValidate == InitValidate /\ [][ApplyValidate]_vars

(***************************************************************************)
(* Streaming: execute_task_with_progress, consumed by the endpoint         *)
(* execute_task_with_streaming.  flow[t].events is the sequence of events  *)
(* the response has carried so far, flow[t].closed tells that the          *)
(* generator has returned.                                                 *)
(***************************************************************************)
StreamPlanningProgress == 0       \* line 535
StreamExecutingProgress == 180    \* line 551
\* A slip: 0.1 is written for 0.8.
StreamSynthesisProgressOfPlanning == PlanningProgress
StreamSynthesisProgress == 480    \* line 564
StreamCompletionProgress == 600   \* line 578

StatusEvent(task_id, status, progress) ==
    [type |-> "status_update", task_id |-> task_id, status |-> status,
     progress |-> <<progress>>]

CompletionEvent(task_id, progress, result) ==
    [type |-> "completion", task_id |-> task_id, status |-> "COMPLETED",
     progress |-> <<progress>>, result |-> result]

\* A slip: the error is sent as one more status update.
ErrorEventAsStatus(message) ==
    [type |-> "status_update", status |-> "", progress |-> <<>>, message |-> message]

\* an error event carries no status and no progress
ErrorEvent(message) ==
    [type |-> "error", status |-> "", progress |-> <<>>, message |-> message]

\* The contexts knowledge_base.search hands to the stream: a list, never None
StreamContexts == {ContextOf(<<>>), ContextOf(<<Doc1>>)}

\* enhanced_tasks.py lines 57-74 and orchestrator lines 515-538: the search,
\* the TaskStatus record and the first event
StreamRequest(t, task_description, context, search_ok) ==
    /\ tasks[t].status = "absent"
    /\ flow[t].pc = "idle"
    /\ \A u \in TaskIds : u < t => flow[u].pc # "idle"
    /\ IF search_ok
       THEN /\ tasks' = [tasks EXCEPT ![t] = NewTask]
            /\ flow' = [flow EXCEPT ![t] =
                           [ IdleFlow EXCEPT
                               !.pc = "plan", !.mode = "stream",
                               !.description = task_description,
                               !.context = context,
                               !.events = <<StatusEvent(t, "PLANNING",
                                                        StreamPlanningProgress)>> ]]
       ELSE /\ tasks' = tasks
            /\ flow' = [flow EXCEPT ![t] =
                           [ IdleFlow EXCEPT
                               !.pc = "done", !.mode = "stream",
                               !.description = task_description,
                               !.events = <<ErrorEvent(<<"search error">>)>>,
                               !.closed = TRUE ]]
    /\ UNCHANGED <<shared_context, stats, response, fn_in, fn_out, store>>

\* lines 540-554: phase 1 and the event that follows it
StreamPlan(t) ==
    /\ flow[t].pc = "plan"
    /\ flow[t].mode = "stream"
    /\ LET plan_result == plan_task_with_agents(flow[t].description, flow[t].context)
       IN  flow' = [flow EXCEPT ![t] =
                       IF plan_result.success
                       THEN [@ EXCEPT !.pc = "execute",
                                      !.plan_result = <<plan_result>>,
                                      !.events = Append(@, StatusEvent(t, "EXECUTING",
                                                            StreamExecutingProgress))]
                       ELSE [@ EXCEPT !.pc = "done",
                                      !.origin = plan_result.error,
                                      !.events = Append(@, ErrorEvent(
                                                     <<"Planning failed: ">>
                                                     \o plan_result.error)),
                                      !.closed = TRUE]]
    /\ UNCHANGED <<tasks, shared_context, stats, response, fn_in, fn_out, store>>

\* lines 557-559 and 192-197: phase 2 begins (no status update of its own)
StreamBegin(t) ==
    /\ flow[t].pc = "execute"
    /\ flow[t].mode = "stream"
    /\ LET plan == flow[t].plan_result[1].plan
           selected == Get(plan, "selected_agents", DefaultAgents)
       IN  /\ shared_context' = create_context(shared_context, t, flow[t].context)
           /\ flow' = [flow EXCEPT ![t] =
                          [@ EXCEPT !.pc = IF selected = <<>> THEN "aggregate" ELSE "agents",
                                    !.selected_agents = selected,
                                    !.i = 0]]
    /\ UNCHANGED <<tasks, stats, response, fn_in, fn_out, store>>

\* lines 561-567: the event after the agents
StreamSynthesis(t) ==
    /\ flow[t].pc = "aggregate"
    /\ flow[t].mode = "stream"
    /\ flow' = [flow EXCEPT ![t] =
                   [@ EXCEPT !.pc = "synthesis",
                             !.events = Append(@, StatusEvent(t, "EXECUTING",
                                                   StreamSynthesisProgress))]]
    /\ UNCHANGED <<tasks, shared_context, stats, response, fn_in, fn_out, store>>

\* lines 569-582: phase 3 and the completion event
StreamComplete(t) ==
    /\ flow[t].pc = "synthesis"
    /\ flow[t].mode = "stream"
    /\ LET final_result == aggregate_results_enhanced(flow[t].description,
                               flow[t].execution_results, flow[t].context)
       IN  flow' = [flow EXCEPT ![t] =
                       [@ EXCEPT !.pc = "done",
                                 !.final_result = <<final_result>>,
                                 !.outcome = "returned",
                                 !.events = Append(@, CompletionEvent(t,
                                                StreamCompletionProgress, final_result)),
                                 !.closed = TRUE]]
    /\ UNCHANGED <<tasks, shared_context, stats, response, fn_in, fn_out, store>>

\* lines 584-589: an exception inside the generator
StreamFail(t) ==
    /\ flow[t].pc = "finish"
    /\ flow[t].mode = "stream"
    /\ flow' = [flow EXCEPT ![t] =
                   [@ EXCEPT !.pc = "done",
                             !.outcome = "raised",
                             !.events = Append(@, ErrorEvent(
                                            <<"Task execution failed: ">> \o flow[t].exc)),
                             !.closed = TRUE]]
    /\ UNCHANGED <<tasks, shared_context, stats, response, fn_in, fn_out, store>>

StreamOf(t) ==
    \/ StreamPlan(t)
    \/ StreamBegin(t)
    \/ \E env \in AgentEnvs : AgentStep(t, env)
    \/ StreamSynthesis(t)
    \/ StreamComplete(t)
    \/ StreamFail(t)

StreamNext ==
    \/ \E t \in TaskIds, d \in TaskDescriptions, c \in StreamContexts, ok \in BOOLEAN :
           StreamRequest(t, d, c, ok)
    \/ \E t \in TaskIds : StreamPlan(t)
    \/ \E t \in TaskIds : StreamBegin(t)
    \/ \E t \in TaskIds, env \in AgentEnvs : AgentStep(t, env)
    \/ \E t \in TaskIds : StreamSynthesis(t)
    \/ \E t \in TaskIds : StreamComplete(t)
    \/ \E t \in TaskIds : StreamFail(t)

SpecStream == Init /\ [][StreamNext]_vars

\* One stream.  Every call the generator awaits returns or raises, and the
\* response keeps reading the generator: a stream that can step does step.
StreamNextOfOne ==
    \/ \E d \in TaskDescriptions, c \in StreamContexts, ok \in BOOLEAN :
           StreamRequest(1, d, c, ok)
    \/ StreamPlan(1)
    \/ StreamBegin(1)
    \/ \E env \in AgentEnvs : AgentStep(1, env)
    \/ StreamSynthesis(1)
    \/ StreamComplete(1)
    \/ StreamFail(1)

SpecStreamFair == Init /\ [][StreamNextOfOne]_vars /\ WF_vars(StreamOf(1))

(***************************************************************************)
(* The ContextManager on its own: outputs are stored, time passes, the     *)
(* store is exported and imported again, and relevance is asked for.       *)
(* fn_in / fn_out hold the last question and its answer.                   *)
(***************************************************************************)
StoreAgents == {"research", "planner"}
TargetAgents == {"research", "analysis", "coordinator"}
StoreOutputs == {<<>>, Join(<<WRevenue>> \o Repeat(WItems, MaxRepeat))}
StoreTasks == {<<>>, Join(<<WAnalyze, WRevenue>>), Join(<<WChart>>)}
ContextSizes == {DefaultMaxContextSize}

\* sizes around the truncation reserve
SmallContextSizes == {TruncationReserve, TruncationReserve \div 2, 0}

NoCall == [fn |-> "none", arg |-> <<>>]

AddAgentOutput(agent_name, output) ==
    /\ store.adds < MaxAdds
    /\ store' = [add_agent_output(store, agent_name, output) EXCEPT !.adds = @ + 1]
    /\ fn_in' = NoCall
    /\ fn_out' = <<>>
    /\ UNCHANGED <<tasks, flow, shared_context, stats, response>>

\* time passes
Tick ==
    /\ store.now < MaxTicks
    /\ store' = [store EXCEPT !.now = @ + 1]
    /\ fn_in' = NoCall
    /\ fn_out' = <<>>
    /\ UNCHANGED <<tasks, flow, shared_context, stats, response>>

ImportExported ==
    /\ store.imports < MaxImports
    /\ store' = [import_exported_context(store) EXCEPT !.imports = @ + 1]
    /\ fn_in' = NoCall
    /\ fn_out' = <<>>
    /\ UNCHANGED <<tasks, flow, shared_context, stats, response>>

\* _calculate_context_relevance for each stored entry in turn
AskRelevance(target_agent, task) ==
    /\ store.agent_outputs # <<>>
    /\ fn_in' = [fn |-> "relevance", arg |-> [agent |-> target_agent, task |-> task]]
    /\ fn_out' = [k \in DOMAIN store.agent_outputs |->
                     calculate_context_relevance(store.agent_outputs[k].agent,
                         store.agent_outputs[k], target_agent, task, store.now)]
    /\ UNCHANGED <<tasks, flow, shared_context, stats, response, store>>

AskContext(agent_name, task, max_context_size) ==
    /\ fn_in' = [fn |-> "context",
                 arg |-> [agent |-> agent_name, task |-> task,
                          size |-> max_context_size]]
    /\ fn_out' = <<get_context_for_agent(store, agent_name, task, max_context_size)>>
    /\ UNCHANGED <<tasks, flow, shared_context, stats, response, store>>

ContextNext ==
    \/ \E a \in StoreAgents, o \in StoreOutputs : AddAgentOutput(a, o)
    \/ Tick
    \/ ImportExported
    \/ \E a \in TargetAgents, d \in StoreTasks : AskRelevance(a, d)
    \/ \E a \in TargetAgents, d \in StoreTasks, m \in ContextSizes : AskContext(a, d, m)

SpecContext == Init /\ [][ContextNext]_vars

\* the retention sweep, called from outside
SweepAges == {0, 1}

ClearOldContext(max_age_hours) ==
    /\ store' = clear_old_context(store, max_age_hours)
    /\ fn_in' = [fn |-> "clear_old_context", arg |-> max_age_hours]
    /\ fn_out' = <<>>
    /\ UNCHANGED <<tasks, flow, shared_context, stats, response>>

SweepNext ==
    \/ \E a \in StoreAgents, o \in StoreOutputs : AddAgentOutput(a, o)
    \/ Tick
    \/ ImportExported
    \/ \E h \in SweepAges : ClearOldContext(h)

SpecSweep == Init /\ [][SweepNext]_vars

\* get_context_for_agent asked with small max_context_size values
TruncateNext ==
    \/ \E a \in StoreAgents, o \in StoreOutputs : AddAgentOutput(a, o)
    \/ Tick
    \/ \E a \in TargetAgents, d \in StoreTasks, m \in SmallContextSizes :
           AskContext(a, d, m)

SpecTruncate == Init /\ [][TruncateNext]_vars

(***************************************************************************)
(* Properties.                                                             *)
(***************************************************************************)
Records(t) == flow[t].execution_results

\* C1: for every task description, _select_agents_for_task returns a list
\* that holds at least two (different) agents.
SelectionHasTwoAgents ==
    (fn_in.fn = "select" /\ fn_out # <<>>)
        => /\ Len(fn_out[1]) >= 2
           /\ Cardinality({fn_out[1][i] : i \in DOMAIN fn_out[1]}) >= 2

\* C1 witness: the empty description, which matches no keyword family, is
\* answered with the two default agents.
SelectionOfEmptyDescription ==
    /\ fn_in.fn = "select"
    /\ fn_in.arg = <<>>
    /\ fn_out = << <<"research", "analysis">> >>

\* C2 as stated: every status update leaves progress at least as large as it
\* was, and progress is 1.0 only when the status is Completed.
ProgressNeverDecreases ==
    [][\A t \in TaskIds :
          /\ tasks'[t].progress >= tasks[t].progress
          /\ tasks'[t].progress = ProgressOne => tasks'[t].status = "completed"]_vars

\* C2 amended: every status update other than the one to Failed leaves
\* progress at least as large as it was; the update to Failed sets progress to
\* 0.0; progress is 1.0 only when the status is Completed.
ProgressNeverDecreasesUntilFailed ==
    [][\A t \in TaskIds :
          /\ tasks'[t].status # "failed" => tasks'[t].progress >= tasks[t].progress
          /\ tasks'[t].status = "failed" => tasks'[t].progress = FailedProgress
          /\ tasks'[t].progress = ProgressOne => tasks'[t].status = "completed"]_vars

\* C2 witness: a task that failed after both agents ran (progress had
\* reached 0.8) and now shows progress 0.0.
FailedAfterAggregationShowsZero ==
    \E t \in TaskIds :
        /\ tasks[t].status = "failed"
        /\ flow[t].final_result # <<>>
        /\ Len(Records(t)) = 2
        /\ tasks[t].progress = 0

AllowedTransitions ==
    { <<"planning", "executing">>, <<"executing", "completed">>,
      <<"planning", "failed">>, <<"executing", "failed">>,
      <<"executing", "paused">>, <<"paused", "executing">> }

\* C3: the status of a task in the registry changes only along the allowed
\* transitions; Completed and Failed are never left.
StatusFollowsTransitions ==
    [][\A t \in TaskIds :
          (tasks[t].status # "absent" /\ tasks'[t].status # tasks[t].status)
              => <<tasks[t].status, tasks'[t].status>> \in AllowedTransitions]_vars

\* C3 witness: a second task is being executed while the first one, which
\* failed during execution, is still Failed.
FailedStaysWhileOtherRuns ==
    /\ tasks[1].status = "failed"
    /\ Len(Records(1)) = 1
    /\ tasks[2].status = "executing"

Permitted(op) ==
    IF op = "pause_task" THEN {"executing"}
    ELSE IF op = "resume_task" THEN {"paused"}
    ELSE {"executing", "paused"}

\* C4 as stated: a control call answers true only from a permitted status, and
\* from every other status it returns false without raising.
ControlCallRejectsQuietly ==
    response # <<>> =>
        LET r == response[1]
        IN  /\ r.returned = "true" => r.status_before \in Permitted(r.op)
            /\ r.status_before \notin Permitted(r.op) => r.returned = "false"

\* C5: a result with a non-empty tools_used list is valid, whatever the
\* output, the context documents and the fact check.
ToolUseIsValid ==
    (fn_in.fn = "validate" /\ fn_out # <<>>
        /\ Get(fn_in.arg.agent_result, "tools_used", <<>>) # <<>>)
            => fn_out[1].valid

\* C5 witness: tools were used, the output is empty, documents are given and
\* the provider of the fact check is down; the verdict is valid.
ToolUseWithEmptyOutputIsValid ==
    /\ fn_in.fn = "validate"
    /\ fn_out # <<>>
    /\ fn_in.arg.agent_result.tools_used # <<>>
    /\ fn_in.arg.agent_result.output = <<>>
    /\ fn_in.arg.context.docs # <<>>
    /\ ~fn_in.arg.provider
    /\ fn_out[1].valid

\* the phase in which execute_task raised
PlanningFailed(t) == flow[t].exc # <<>> /\ flow[t].plan_result = <<>>
ExecutionFailed(t) ==
    flow[t].exc # <<>> /\ flow[t].plan_result # <<>> /\ flow[t].final_result = <<>>

FailedTaskExposesRecords ==
    \A t \in TaskIds :
        (tasks[t].status = "failed" /\ Len(Records(t)) >= 1)
            => /\ tasks[t].errors # <<>>
               /\ \/ Len(tasks[t].agents) = Len(Records(t))
                  \/ tasks[t].result # <<>>

\* how an execution record tells that its agent's invocation failed
WrapperErrored(record) == "error" \in DOMAIN record.result
ExecuteRaised(record) ==
    /\ ~WrapperErrored(record)
    /\ ~record.result.success
    /\ record.result.output[1] = "Execution failed: "
ReportedFailure(record) ==
    ~WrapperErrored(record) /\ ~record.result.success /\ ~ExecuteRaised(record)
InvocationFailed(record) == WrapperErrored(record) \/ ~record.result.success

\* every agent of the plan that the loop has passed has its record, in order
LoopKeptGoing(t) ==
    /\ Len(Records(t)) = flow[t].i
    /\ \A k \in DOMAIN Records(t) : Records(t)[k].agent = flow[t].selected_agents[k]
    /\ (flow[t].pc \in {"aggregate", "finish", "done"} /\ flow[t].origin # <<"loop error">>
        /\ flow[t].plan_result # <<>>)
           => Len(Records(t)) = Len(flow[t].selected_agents)

\* C8 as stated: the record of a failed invocation has confidence exactly 0,
\* the task is not failed by it, and the remaining agents are still invoked.
AgentFailureRecordedAsZero ==
    \A t \in TaskIds :
        /\ \A k \in DOMAIN Records(t) :
               InvocationFailed(Records(t)[k]) => Records(t)[k].confidence = 0
        /\ LoopKeptGoing(t)

\* C8 amended: the record of a failed invocation has confidence 0 when execute
\* raised (or the invocation itself errored), and the low confidence the agent
\* reported (0.1), halved when the validation rejects the output, when execute
\* reported the failure; the task is not failed by it, and the remaining
\* agents are still invoked.
AgentFailureRecordedLow ==
    /\ [][\A t \in TaskIds :
             (Len(Records(t))' = Len(Records(t)) + 1
                 /\ InvocationFailed(Records(t)'[Len(Records(t)')]))
                   => /\ tasks'[t].status = "executing"
                      /\ flow'[t].exc = <<>>
                      /\ flow'[t].pc = IF flow'[t].i < Len(flow[t].selected_agents)
                                       THEN "agents" ELSE "aggregate"]_vars
    /\ [](\A t \in TaskIds :
             /\ \A k \in DOMAIN Records(t) :
                    LET record == Records(t)[k]
                    IN  /\ (WrapperErrored(record) \/ ExecuteRaised(record))
                               => record.confidence = 0
                        /\ ReportedFailure(record)
                               => /\ record.result.confidence = FailureConfidence
                                  /\ record.confidence =
                                         IF record.validation.valid
                                         THEN FailureConfidence
                                         ELSE FailureConfidence \div 2
             /\ LoopKeptGoing(t))

\* C8 witness: the first agent reported a failure, its record carries half of
\* 0.1, and the second agent was invoked and has its record.
ReportedFailureThenNextAgent ==
    \E t \in TaskIds :
        /\ Len(Records(t)) = 2
        /\ ReportedFailure(Records(t)[1])
        /\ Records(t)[1].confidence = 50
        /\ ~InvocationFailed(Records(t)[2])
        /\ tasks[t].status = "executing"

\* C9 as stated: the records aggregation keeps carry no hard error, and a
\* task all of whose invocations errored ends Failed for the reason
\* "No successful agent executions".
AggregationDropsErroredRecords ==
    \A t \in TaskIds :
        /\ flow[t].final_result # <<>>
              => \A k \in DOMAIN successful_results(Records(t)) :
                     ~WrapperErrored(successful_results(Records(t))[k])
        /\ (flow[t].pc = "done" /\ Records(t) # <<>>
            /\ \A k \in DOMAIN Records(t) : WrapperErrored(Records(t)[k]))
              => /\ tasks[t].status = "failed"
                 /\ \E k \in DOMAIN tasks[t].errors :
                        IsSubstring(<<"No successful agent executions">>,
                                    tasks[t].errors[k])

RECURSIVE SumOfConfidences(_)
SumOfConfidences(records) ==
    IF records = <<>> THEN 0
    ELSE records[1].confidence + SumOfConfidences(Tail(records))

\* C10 as stated: for n >= 1 surviving records, aggregation produces an
\* overall_confidence equal to the sum of the n confidences divided by n.
OverallConfidenceIsMean ==
    \A t \in TaskIds :
        (flow[t].final_result # <<>> /\ successful_results(Records(t)) # <<>>)
            => LET aggregated == flow[t].final_result[1]
                   surviving == successful_results(Records(t))
               IN  /\ "overall_confidence" \in DOMAIN aggregated
                   /\ aggregated.overall_confidence.sum * Len(surviving)
                          = SumOfConfidences(surviving)
                                * aggregated.overall_confidence.count

Events(t) == flow[t].events

Terminal(event) == event.type \in {"completion", "error"}

\* the phase an event belongs to; an error event belongs to none
PhaseRank(event) ==
    IF event.type = "completion" THEN 3
    ELSE IF event.type = "status_update" /\ event.status = "EXECUTING" THEN 2
    ELSE IF event.type = "status_update" /\ event.status = "PLANNING" THEN 1
    ELSE 0

\* C11: in every stream the events come in phase order (Planning update,
\* Executing updates, completion) and the progress values they carry never
\* decrease.
StreamInPhaseOrder ==
    \A t \in TaskIds :
        \A i, j \in DOMAIN Events(t) :
            (i < j /\ Events(t)[i].type # "error" /\ Events(t)[j].type # "error")
                => /\ PhaseRank(Events(t)[i]) >= 1
                   /\ PhaseRank(Events(t)[i]) <= PhaseRank(Events(t)[j])
                   /\ Events(t)[i].progress[1] <= Events(t)[j].progress[1]

\* C11 witness: a stream that ran to its completion event, with progress
\* 0.0, 0.3, 0.8, 1.0.
StreamRanToCompletion ==
    \E t \in TaskIds :
        /\ Len(Events(t)) = 4
        /\ [k \in 1..4 |-> Events(t)[k].progress] = <<<<0>>, <<180>>, <<480>>, <<600>>>>
        /\ Events(t)[4].type = "completion"

\* C12: a stream carries at most one terminal event, nothing follows it, the
\* generator has returned exactly when it was sent, and every stream that was
\* opened does get there.
StreamEndsOnce ==
    /\ [](\A t \in TaskIds :
             /\ \A k \in DOMAIN Events(t) : Terminal(Events(t)[k]) => k = Len(Events(t))
             /\ flow[t].closed <=> (Events(t) # <<>> /\ Terminal(Events(t)[Len(Events(t))])))
    /\ \A t \in TaskIds : (flow[t].mode = "stream") ~> flow[t].closed

\* C12 witness: a stream closed by the error event of a failed agent loop,
\* after two status updates.
StreamClosedByError ==
    \E t \in TaskIds :
        /\ flow[t].closed
        /\ Len(Events(t)) = 3
        /\ Events(t)[3].type = "error"
        /\ Events(t)[3].message[1] = "Task execution failed: "

\* planning, the agent loop, aggregation and the gap analysis all returned
PhasesSucceeded(t) ==
    /\ flow[t].plan_result # <<>>
    /\ Len(Records(t)) = Len(flow[t].selected_agents)
    /\ flow[t].final_result # <<>>

\* C13 as stated: a task of execute_task whose phases all succeeded ends
\* Completed, with progress 1.0 and the final result on its record.
SucceededTaskCompletes ==
    \A t \in TaskIds :
        (flow[t].mode = "task" /\ flow[t].pc = "done" /\ PhasesSucceeded(t))
            => /\ tasks[t].status = "completed"
               /\ tasks[t].progress = ProgressOne
               /\ tasks[t].result # <<>>

\* C14 as stated: _calculate_context_relevance returns, without raising, a
\* score in [0, 1] for every stored entry, asking agent and task description;
\* get_context_for_agent on an empty store returns without raising.
RelevanceInUnitRange ==
    /\ fn_in.fn = "relevance"
          => \A k \in DOMAIN fn_out :
                 /\ ~fn_out[k].raised
                 /\ fn_out[k].score >= 0
                 /\ fn_out[k].score <= RelevanceOne
    /\ (fn_in.fn = "context" /\ fn_out # <<>> /\ store.agent_outputs = <<>>)
          => ~fn_out[1].failed


Stepped(t) == flow'[t] # flow[t]

\* the status and progress the registry holds for a finished task, read off
\* that task's own flow
OwnOutcome(t) ==
    IF flow[t].outcome = "returned"
    THEN [status |-> "completed", progress |-> ProgressOne]
    ELSE [status |-> "failed", progress |-> FailedProgress]

\* C16: with two tasks running interleaved on one orchestrator, a task's
\* registry record and its shared_context entry change only in steps of that
\* task's own flow, and a step of one flow leaves every other task's record
\* and entry alone; a finished task holds the status and progress its own
\* flow ended with.
TasksAreIsolated ==
    /\ [][\A t \in TaskIds :
              /\ (tasks'[t] # tasks[t] \/ shared_context'[t] # shared_context[t])
                     => Stepped(t)
              /\ Stepped(t)
                     => \A u \in TaskIds \ {t} :
                            /\ tasks'[u] = tasks[u]
                            /\ shared_context'[u] = shared_context[u]
                            /\ ~Stepped(u)]_vars
    /\ [](\A t \in TaskIds :
              flow[t].pc = "done"
                  => /\ tasks[t].status = OwnOutcome(t).status
                     /\ tasks[t].progress = OwnOutcome(t).progress)

\* C16 witness: one task has finished while the other, started before the
\* first one ended, is in the middle of its agents with its own context entry.
FinishedBesideRunning ==
    \E t \in TaskIds, u \in TaskIds :
        /\ t # u
        /\ flow[t].pc = "done"
        /\ tasks[t].status = "failed"
        /\ flow[u].pc = "agents"
        /\ flow[u].i = 1
        /\ tasks[u].status = "executing"
        /\ shared_context[u] # NoSharedContext
        /\ shared_context[t] # shared_context[u]


\* C17: when the validation of an agent's output is invalid the task goes on:
\* the new record holds half the confidence the agent reported, the records
\* before it are unchanged, the verdict is attached to the new record, the
\* task stays Executing and the loop moves to the next agent of the list.
InvalidOutputOnlyHalvesConfidence ==
    [][\A t \in TaskIds :
          (/\ Len(flow'[t].execution_results) = Len(Records(t)) + 1
           /\ ~flow'[t].execution_results[Len(Records(t)) + 1].validation.valid)
              => LET record == flow'[t].execution_results[Len(Records(t)) + 1]
                     n == Len(flow[t].selected_agents)
                 IN  /\ record.confidence * 2
                            = Get(record.result, "confidence", RecordDefaultConfidence)
                     /\ SubSeq(flow'[t].execution_results, 1, Len(Records(t)))
                            = Records(t)
                     /\ record.validation.reason # <<>>
                     /\ tasks'[t].status = "executing"
                     /\ flow'[t].i = flow[t].i + 1
                     /\ flow'[t].pc = IF flow'[t].i < n THEN "agents" ELSE "aggregate"
                     /\ flow'[t].exc = <<>>]_vars

\* C17 witness: the first agent's output was judged invalid, its record holds
\* half of the 0.1 it reported together with the verdict, and the second agent
\* was invoked after it and kept the 0.6 it reported.
SecondAgentRanAfterInvalidFirst ==
    \E t \in TaskIds :
        /\ Len(Records(t)) = 2
        /\ ~Records(t)[1].validation.valid
        /\ Records(t)[1].validation.reason # <<>>
        /\ Records(t)[1].result.confidence = FailureConfidence
        /\ Records(t)[1].confidence * 2 = FailureConfidence
        /\ Records(t)[2].agent = flow[t].selected_agents[2]
        /\ Records(t)[2].validation.valid
        /\ Records(t)[2].confidence = 600
        /\ tasks[t].status = "executing"


\* the agents invoked so far in the execution phase of task t, in order
Invoked(t) == [k \in DOMAIN Records(t) |-> Records(t)[k].agent]

\* C18 as stated: the agents invoked in a task's execution phase are the
\* agents _select_agents_for_task selected for it during planning, in the
\* same order, each invoked once.
InvokedAgentsAreSelectedAgents ==
    \A t \in TaskIds :
        flow[t].plan_result # <<>>
            => LET selected == flow[t].plan_result[1].selected_agents
               IN  /\ Len(Invoked(t)) <= Len(selected)
                   /\ Invoked(t) = SubSeq(selected, 1, Len(Invoked(t)))
                   /\ flow[t].pc = "aggregate" => Invoked(t) = selected


\* C19: within one task the agents are invoked one after another, each step
\* storing one record before the next agent is handed its context, and the
\* previous_results handed to the k-th invoked agent are the results of
\* exactly the k-1 agents invoked before it.
AgentsSeePreviousResults ==
    /\ [](\A t \in TaskIds :
              /\ Len(flow[t].handed) = Len(Records(t))
              /\ \A k \in DOMAIN flow[t].handed :
                     /\ flow[t].handed[k] = {Invoked(t)[j] : j \in 1..(k - 1)}
                     /\ Cardinality(flow[t].handed[k]) = k - 1
              /\ \A k \in DOMAIN Records(t) :
                     /\ Records(t)[k].agent \in DOMAIN shared_context[t].agent_results
                     /\ shared_context[t].agent_results[Records(t)[k].agent].output
                            = Get(Records(t)[k].result, "output", <<>>))
    /\ [][\A t \in TaskIds :
              /\ Len(flow'[t].execution_results) <= Len(Records(t)) + 1
              /\ Len(flow'[t].execution_results) = Len(Records(t)) + 1
                     => flow'[t].i = flow[t].i + 1]_vars

\* C19 witness: the second agent of a task was handed the result of the
\* first agent, and of no other.
SecondAgentSawFirstResult ==
    \E t \in TaskIds :
        /\ Len(Records(t)) = 2
        /\ flow[t].handed[1] = {}
        /\ flow[t].handed[2] = {Records(t)[1].agent}
        /\ Records(t)[1].result.output # <<>>


\* C20 as stated: with n agents, the progress written to the task record
\* just before the agent at index i (from 0) is invoked is 0.3 + (i / n) * 0.5;
\* execution-phase progress stays in [0.3, 0.8) and 0.8 is first written when
\* aggregation starts.
ExecutionProgressSpansHalf ==
    \A t \in TaskIds :
        LET n == Len(flow[t].selected_agents)
        IN  /\ (flow[t].pc \in {"agents", "aggregate"} /\ flow[t].i >= 1)
                  => /\ tasks[t].progress = legacy_execution_progress(flow[t].i - 1, n)
                     /\ tasks[t].progress >= ExecutingProgress
                     /\ tasks[t].progress < AggregationProgress
            /\ tasks[t].progress = AggregationProgress
                  => flow[t].pc \notin {"plan", "execute", "agents", "aggregate"}


\* where in the log of task t the given call for the given agent stands
\* (0 when it was never made)
CallIndex(t, call, agent_name) ==
    LET at == {k \in DOMAIN flow[t].log :
                  flow[t].log[k] = [call |-> call, agent |-> agent_name]}
    IN  IF at = {} THEN 0 ELSE CHOOSE k \in at : \A j \in at : k <= j

\* C21 as stated: an agent's output is written into the task's shared context
\* only after the validation verdict for that output was produced, so a later
\* agent is handed validated output only.
ContextAbsorbsAfterVerdict ==
    \A t \in TaskIds :
        /\ \A k \in DOMAIN Records(t) :
               LET agent_name == Records(t)[k].agent
               IN  CallIndex(t, "update_context", agent_name) # 0
                       => /\ CallIndex(t, "_validate_agent_output", agent_name) # 0
                          /\ CallIndex(t, "_validate_agent_output", agent_name)
                                 < CallIndex(t, "update_context", agent_name)
        /\ \A k \in DOMAIN flow[t].handed :
               \A j \in DOMAIN Records(t) :
                   Records(t)[j].agent \in flow[t].handed[k]
                       => Records(t)[j].validation.valid


\* C22 as stated: whenever the list agent selection returns holds more than
\* one agent other than the coordinator, it also holds the coordinator.
SeveralAgentsHaveCoordinator ==
    (fn_in.fn = "select" /\ fn_out # <<>>)
        => LET others == {k \in DOMAIN fn_out[1] : fn_out[1][k] # "coordinator"}
           IN  Cardinality(others) > 1 => Contains(fn_out[1], "coordinator")


AskedScores ==
    [k \in DOMAIN store.agent_outputs |->
        calculate_context_relevance(store.agent_outputs[k].agent, store.agent_outputs[k],
                                    fn_in.arg.agent, Lower(fn_in.arg.task),
                                    store.now).score]

\* C24 as stated: get_context_for_agent keeps exactly the entries whose
\* relevance is not below 0.3 (an entry at exactly 0.3 is kept), in descending
\* order of relevance, and shows at most the 5 highest of them.
ContextKeepsEntriesFromThreshold ==
    (fn_in.fn = "context" /\ fn_out # <<>> /\ ~fn_out[1].failed)
        => LET shown == fn_out[1].shown
               kept == {k \in DOMAIN store.agent_outputs :
                           AskedScores[k] >= RelevanceThreshold}
           IN  /\ Len(shown) <= TopContexts
               /\ \A j \in 1..(Len(shown) - 1) :
                      shown[j].relevance_score >= shown[j + 1].relevance_score
               /\ Cardinality(kept) <= TopContexts
                      => {shown[j].agent : j \in DOMAIN shown}
                             = {store.agent_outputs[k].agent : k \in kept}


\* C25 as stated: when the concatenated context is longer than maxSize, the
\* text returned is its first (maxSize - margin) characters followed by the
\* truncation marker; when it is not longer, the concatenation is returned
\* unchanged, with no marker.
LongContextIsCutAtMargin ==
    (fn_in.fn = "context" /\ fn_out # <<>> /\ ~fn_out[1].failed)
        => LET r == fn_out[1]
           IN  IF r.concatenation > fn_in.arg.size
               THEN /\ r.marked
                    /\ r.kept = fn_in.arg.size - TruncationReserve
                    /\ r.length = r.kept + TruncationNoticeLen
               ELSE /\ ~r.marked
                    /\ r.kept = r.concatenation
                    /\ r.length = r.concatenation

\* C30 as stated: for every max_context_size >= 0, values below the margin
\* of 100 included, and every store with at least one relevant entry, the
\* text get_context_for_agent returns is at most max_context_size long.
ContextFitsMaxSize ==
    (fn_in.fn = "context" /\ fn_out # <<>> /\ ~fn_out[1].failed
        /\ fn_out[1].shown # <<>>)
            => fn_out[1].length <= fn_in.arg.size


\* C26 as stated: context entries are append-only; after an add_agent_output
\* call, also one for an agent that already has an output, every entry
\* stored before is still present with its original content, in the agent
\* outputs and in the history.
EntriesAreAppendOnly ==
    [][store'.adds = store.adds + 1
          => /\ \A k \in DOMAIN store.agent_outputs :
                    \E j \in DOMAIN store'.agent_outputs :
                        store'.agent_outputs[j] = store.agent_outputs[k]
             /\ \A k \in DOMAIN store.context_history :
                    \E j \in DOMAIN store'.context_history :
                        store'.context_history[j] = store.context_history[k]]_vars


\* older than max_age_hours at the given time
OlderThan(entry, now, max_age_hours) ==
    (now - entry.timestamp) * TickSeconds > max_age_hours * SecondsPerHour

\* C27 as stated: after clear_old_context(maxAgeHours) no remaining history
\* entry and no remaining agent output is older than maxAgeHours, and every
\* entry and output that is not older is still present and unchanged.
SweepRemovesExactlyTheOld ==
    [][fn_in'.fn = "clear_old_context"
          => LET h == fn_in'.arg
             IN  /\ \A k \in DOMAIN store'.agent_outputs :
                        ~OlderThan(store'.agent_outputs[k], store.now, h)
                 /\ \A k \in DOMAIN store'.context_history :
                        ~OlderThan(store'.context_history[k], store.now, h)
                 /\ store'.agent_outputs
                        = SelectSeq(store.agent_outputs,
                                    LAMBDA e : ~OlderThan(e, store.now, h))
                 /\ store'.context_history
                        = SelectSeq(store.context_history,
                                    LAMBDA e : ~OlderThan(e, store.now, h))]_vars


\* the execute_task calls that have finished
Finished == {t \in TaskIds : flow[t].pc = "done"}

\* C28: in every reachable state, whatever the interleaving of the
\* execute_task calls, total_tasks = successful_tasks + failed_tasks, and
\* every finished call has added exactly one to total_tasks.
StatisticsAddUp ==
    /\ [](/\ stats.total_tasks = stats.successful_tasks + stats.failed_tasks
          /\ stats.total_tasks = Cardinality(Finished))
    /\ [][\A t \in TaskIds :
              (flow[t].pc # "done" /\ flow'[t].pc = "done")
                  => stats'.total_tasks = stats.total_tasks + 1]_vars

\* C28 witness: two calls have both finished after running both of their
\* agents, and the total is 2.
TwoCallsCounted ==
    /\ Finished = TaskIds
    /\ stats.total_tasks = 2
    /\ stats.failed_tasks = 2
    /\ \A t \in TaskIds : Len(Records(t)) = 2


\* C29 as stated: the registry agrees with the stream; once the completion
\* event was emitted the task's record is Completed with progress 1.0, once an
\* error event was emitted the record is Failed, and the record's progress is
\* never below the progress of the last event emitted.
RegistryAgreesWithStream ==
    \A t \in TaskIds :
        (flow[t].mode = "stream" /\ Events(t) # <<>>)
            => LET last == Events(t)[Len(Events(t))]
               IN  /\ last.type = "completion"
                          => /\ tasks[t].status = "completed"
                             /\ tasks[t].progress = ProgressOne
                   /\ last.type = "error" => tasks[t].status = "failed"
                   /\ "progress" \in DOMAIN last
                          => tasks[t].progress >= last.progress

====
